---- MODULE Spec2Model ----
(***************************************************************************)
(* FAA ACS monitor: the detection run of scripts/monitor.py                *)
(* (FAAMonitor.monitor and the operations it calls), the registry          *)
(* snapshot known_documents.json, the change log changes.json, the run     *)
(* summary and the content store data/acs-documents; the extraction run of *)
(* scripts/pdf_processor.py (ACSProcessor) on the PDFs of that store, with  *)
(* the regular expressions of parse_acs_sections and extract_acs_standards.*)
(*                                                                         *)
(* Python values:                                                          *)
(*   Optional[T]   None is <<>>, a present value v is <<v>>                *)
(*   str           a sequence of one-character strings                     *)
(*   bytes         a sequence of byte values                               *)
(*   a file        [exists |-> BOOLEAN, is_json |-> BOOLEAN, data |-> ...] *)
(*   JSON values   <<"null">>, <<"str", s>>, <<"num", n>>                  *)
(*   datetime.now  the number of the run (clock)                           *)
(***************************************************************************)
EXTENDS Integers, Sequences, FiniteSets, TLC

\* ------------------------------------------------------------------------
\* Bounds of the model
\* ------------------------------------------------------------------------
\* number of detection runs explored
MaxRuns == 2
\* longest candidate list the discovery scrape returns
MaxDiscovered == 2
\* number of failing requests and failing writes explored in one behaviour
MaxFailures == 1
\* number of document checks explored in one behaviour, all runs together
MaxChecks == 3

\* ------------------------------------------------------------------------
\* Values
\* ------------------------------------------------------------------------
None == <<>>
Some(v) == <<v>>

\* link texts of the scraped page; the second differs from the first only by
\* a character the content store strips from file names
NameA == <<"A", "C", "S">>
NameA2 == <<"A", "C", "S", ":", " ">>
\* the name of a document the page no longer links to
NameB == <<"I", "R">>

\* the anchors the scraped page can hold: (link text, absolute href)
Candidates ==
  { [name |-> NameA, url |-> "u1"],
    [name |-> NameA2, url |-> "u2"] }

\* values of the Last-Modified and ETag response headers
LastModifiedValues == {"T1", "T2"}
ETagValues == {"E1", "E2"}
\* raw values of the Content-Length response header
ContentLengthValues == {"", "100", "200", "abc"}

\* byte payloads a GET can return, the empty payload included
Payloads == { <<>>, <<1>> }

\* characters str.isalnum accepts, among those of the names above
AlnumChars == {"A", "C", "S", "I", "R"}

\* hashlib.sha256(content).hexdigest(), leading digits of the digest
SHA256(content) ==
  CASE content = <<>> -> "e3b0c442"
    [] content = <<1>> -> "4bf5122f"

\* int(s) of Python on the Content-Length values: defined on decimal strings
CanParseInt(s) == s \in {"100", "200"}
ParseInt(s) ==
  CASE s = "100" -> 100
    [] s = "200" -> 200

\* ------------------------------------------------------------------------
\* ACSDocument
\* ------------------------------------------------------------------------
\* ACSDocument(name, url, ...) with the dataclass defaults
ACSDocument(name, url, last_modified, etag, file_size, last_checked) ==
  [ name |-> name, url |-> url, last_modified |-> last_modified,
    etag |-> etag, content_hash |-> None, file_size |-> file_size,
    local_path |-> None, last_checked |-> last_checked ]

\* json.dump of an Optional[str] / Optional[int] field
JsonOptStr(o) == IF o = None THEN <<"null">> ELSE <<"str", o[1]>>
JsonOptNum(o) == IF o = None THEN <<"null">> ELSE <<"num", o[1]>>
\* json.load of such a field
PyOpt(j) == IF j[1] = "null" THEN None ELSE Some(j[2])

\* the dump that writes null for every file_size
ToJson_NoSize(doc) ==
  [ name |-> <<"str", doc.name>>, url |-> <<"str", doc.url>>,
    last_modified |-> JsonOptStr(doc.last_modified),
    etag |-> JsonOptStr(doc.etag),
    content_hash |-> JsonOptStr(doc.content_hash),
    file_size |-> <<"null">>,
    local_path |-> JsonOptStr(doc.local_path),
    last_checked |-> JsonOptStr(doc.last_checked) ]

\* asdict(doc) as json.dump writes it
ToJson(doc) ==
  [ name |-> <<"str", doc.name>>, url |-> <<"str", doc.url>>,
    last_modified |-> JsonOptStr(doc.last_modified),
    etag |-> JsonOptStr(doc.etag),
    content_hash |-> JsonOptStr(doc.content_hash),
    file_size |-> JsonOptNum(doc.file_size),
    local_path |-> JsonOptStr(doc.local_path),
    last_checked |-> JsonOptStr(doc.last_checked) ]

\* the fields of the dataclass; name and url have no default
RecordKeys ==
  {"name", "url", "last_modified", "etag", "content_hash", "file_size",
   "local_path", "last_checked"}

\* a keyword argument of ACSDocument(**obj): None when the object omits it
JsonField(obj, key) == IF key \in DOMAIN obj THEN PyOpt(obj[key]) ELSE None

\* ACSDocument(**obj) on an object json.load returns
FromJson(obj) ==
  [ name |-> obj.name[2], url |-> obj.url[2],
    last_modified |-> JsonField(obj, "last_modified"),
    etag |-> JsonField(obj, "etag"),
    content_hash |-> JsonField(obj, "content_hash"),
    file_size |-> JsonField(obj, "file_size"),
    local_path |-> JsonField(obj, "local_path"),
    last_checked |-> JsonField(obj, "last_checked") ]

\* ACSDocument(**obj) raises TypeError on an unknown key and on an object
\* without name or url
WellFormed(obj) ==
  {"name", "url"} \subseteq DOMAIN obj /\ DOMAIN obj \subseteq RecordKeys

\* a path that does not exist
NoFile == [exists |-> FALSE, is_json |-> FALSE, data |-> <<>>]
\* a file json.dump wrote: the text is a JSON document, data is its array
FileOf(data) == [exists |-> TRUE, is_json |-> TRUE, data |-> data]
\* a file whose text breaks off: json.load raises; data holds the objects
\* that are complete in the text
Truncated(data) == [exists |-> TRUE, is_json |-> FALSE, data |-> data]

\* the array save_known_documents writes
SaveKnownDocuments(documents) ==
  FileOf([k \in 1..Len(documents) |-> ToJson(documents[k])])

\* json.load and the list comprehension of lines 112-115 both return
Parses(file) ==
  file.is_json /\ \A k \in 1..Len(file.data) : WellFormed(file.data[k])

\* the load that keeps the objects it can read
LoadKnownDocuments_Partial(file) ==
  LET good == SelectSeq(file.data, WellFormed)
  IN [k \in 1..Len(good) |-> FromJson(good[k])]

\* load_known_documents: [] when the snapshot does not exist and when
\* reading it raises
LoadKnownDocuments(file) ==
  IF file.exists /\ Parses(file)
  THEN [k \in 1..Len(file.data) |-> FromJson(file.data[k])]
  ELSE <<>>

\* {doc.url: doc for doc in known_docs}: the last record of a url wins
KnownUrls(known_docs) ==
  [u \in {known_docs[k].url : k \in 1..Len(known_docs)} |->
     known_docs[CHOOSE k \in 1..Len(known_docs) :
                  /\ known_docs[k].url = u
                  /\ \A j \in (k+1)..Len(known_docs) : known_docs[j].url # u]]

\* ------------------------------------------------------------------------
\* Content store
\* ------------------------------------------------------------------------
IsSafeChar(c) == c \in AlnumChars \/ c \in {" ", "-", "_"}

RECURSIVE RStrip(_)
\* str.rstrip(): trailing whitespace removed
RStrip(s) ==
  IF s # <<>> /\ s[Len(s)] = " " THEN RStrip(SubSeq(s, 1, Len(s) - 1)) ELSE s

\* "".join(c for c in name if c.isalnum() or c in (' ', '-', '_')).rstrip()
SafeName(name) == RStrip(SelectSeq(name, IsSafeChar))

\* docs_dir / f"{safe_name}.pdf"
LocalPath(name) == SafeName(name) \o <<".pdf">>

StorePaths ==
  { LocalPath(c.name) : c \in Candidates } \cup { LocalPath(NameB) }

\* outcomes of open(local_path, 'wb') and f.write(content)
WriteOutcomes == {"ok", "open_error", "write_error"}

\* outcomes of session.get + raise_for_status
GetFailed == [ok |-> FALSE, content |-> <<>>]
GetOk(content) == [ok |-> TRUE, content |-> content]
GetOutcomes == {GetFailed} \cup {GetOk(b) : b \in Payloads}

\* download_and_verify that saves the bytes and sets the hash, not the path
download_and_verify_NoPath(document, get, wr, st) ==
  IF ~get.ok \/ wr # "ok"
  THEN [changed |-> FALSE, document |-> document, store |-> st,
        write |-> IF get.ok THEN wr ELSE "none"]
  ELSE [changed |-> TRUE,
        document |-> [document EXCEPT
                        !.content_hash = Some(SHA256(get.content))],
        store |-> [st EXCEPT ![LocalPath(document.name)] =
                                Some(get.content)],
        write |-> wr]

\* download_and_verify without the comparison of the hashes
download_and_verify_NoCompare(document, get, wr, st) ==
  IF ~get.ok \/ wr = "open_error"
  THEN [changed |-> FALSE, document |-> document, store |-> st,
        write |-> IF get.ok THEN wr ELSE "none"]
  ELSE IF wr = "write_error"
  THEN [changed |-> FALSE, document |-> document,
        store |-> [st EXCEPT ![LocalPath(document.name)] = Some(<<>>)],
        write |-> wr]
  ELSE [changed |-> TRUE,
        document |-> [document EXCEPT
                        !.content_hash = Some(SHA256(get.content)),
                        !.local_path = Some(LocalPath(document.name))],
        store |-> [st EXCEPT ![LocalPath(document.name)] =
                                Some(get.content)],
        write |-> wr]

\* download_and_verify: the returned pair, the content store afterwards and
\* what happened at the write (lines 205-206)
download_and_verify(document, get, wr, st) ==
  IF ~get.ok
  THEN [changed |-> FALSE, document |-> document, store |-> st,
        write |-> "none"]
  ELSE LET content_hash == SHA256(get.content)
           local_path == LocalPath(document.name)
       IN IF document.content_hash = Some(content_hash)
          THEN [changed |-> FALSE, document |-> document, store |-> st,
                write |-> "none"]
          ELSE IF wr = "open_error"
          THEN [changed |-> FALSE, document |-> document, store |-> st,
                write |-> wr]
          ELSE IF wr = "write_error"
          THEN [changed |-> FALSE, document |-> document,
                store |-> [st EXCEPT ![local_path] = Some(<<>>)],
                write |-> wr]
          ELSE [changed |-> TRUE,
                document |-> [document EXCEPT
                                !.content_hash = Some(content_hash),
                                !.local_path = Some(local_path)],
                store |-> [st EXCEPT ![local_path] = Some(get.content)],
                write |-> wr]

\* ------------------------------------------------------------------------
\* Header probe
\* ------------------------------------------------------------------------
OptOf(S) == {None} \cup {Some(v) : v \in S}

Headers ==
  [ last_modified : OptOf(LastModifiedValues),
    etag : OptOf(ETagValues),
    content_length : OptOf(ContentLengthValues) ]

NoHeaders == [last_modified |-> None, etag |-> None, content_length |-> None]

\* outcomes of session.head: an exception, or a response with a status
HeadRaised == [raised |-> TRUE, status |-> 0, headers |-> NoHeaders]
HeadStatus(status, headers) ==
  [raised |-> FALSE, status |-> status, headers |-> headers]
HeadOutcomes ==
  {HeadRaised, HeadStatus(404, NoHeaders)} \cup
  {HeadStatus(200, h) : h \in Headers}

\* int(content_length) raises ValueError
ContentLengthRaises(h) ==
  /\ h.content_length # None
  /\ h.content_length[1] # ""
  /\ ~CanParseInt(h.content_length[1])

\* int(content_length) if content_length else None
FileSize(h) ==
  IF h.content_length = None \/ h.content_length[1] = ""
  THEN None
  ELSE Some(ParseInt(h.content_length[1]))

\* the comparisons without the one on the byte size
HeadersChanged_NoSize(document, last_modified, etag, file_size) ==
  \/ document.last_modified # last_modified
  \/ document.etag # etag

\* the three comparisons that set changed (lines 159-171)
HeadersChanged(document, last_modified, etag, file_size) ==
  \/ document.last_modified # last_modified
  \/ document.etag # etag
  \/ document.file_size # file_size

\* the try block of check_document_changes raises: the HEAD request raises,
\* or int() rejects the Content-Length
CheckRaises(head) ==
  head.raised \/ (head.status = 200 /\ ContentLengthRaises(head.headers))

\* check_document_changes, lines 143-179: the probe answered 200
compare_headers(document, head, get, wr, st, now) ==
  LET last_modified == head.headers.last_modified
      etag == head.headers.etag
      updated_doc == ACSDocument(document.name, document.url,
                                 last_modified, etag,
                                 FileSize(head.headers), Some(now))
  IN IF HeadersChanged(document, last_modified, etag, updated_doc.file_size)
     THEN LET r == download_and_verify(updated_doc, get, wr, st)
          IN [changed |-> r.changed, document |-> r.document,
              store |-> r.store, fetched |-> TRUE, write |-> r.write]
     ELSE [changed |-> FALSE, document |-> updated_doc, store |-> st,
           fetched |-> FALSE, write |-> "none"]

\* check_document_changes that refreshes last_checked when the probe fails
check_document_changes_Touch(document, head, get, wr, st, now) ==
  IF CheckRaises(head) \/ head.status # 200
  THEN [changed |-> FALSE,
        document |-> [document EXCEPT !.last_checked = Some(now)],
        store |-> st, fetched |-> FALSE, write |-> "none"]
  ELSE compare_headers(document, head, get, wr, st, now)

\* check_document_changes: the returned pair, whether the body was
\* requested, the content store afterwards
check_document_changes(document, head, get, wr, st, now) ==
  IF CheckRaises(head) \/ head.status # 200
  THEN [changed |-> FALSE, document |-> document, store |-> st,
        fetched |-> FALSE, write |-> "none"]
  ELSE compare_headers(document, head, get, wr, st, now)

\* ------------------------------------------------------------------------
\* The remote server
\* ------------------------------------------------------------------------
\* what one check can meet: the answer to the HEAD and the answer to the GET
AllRequests == [head : HeadOutcomes, get : GetOutcomes]

HeadersOf(lm, et, cl) ==
  [last_modified |-> lm, etag |-> et, content_length |-> cl]

\* representations the server of the detection runs serves: validators and
\* body; the second rotates the entity-tag of the first over the same bytes,
\* the third sends no validator and an empty body, the fourth a
\* Content-Length that is not a number, the fifth is a new revision
ServerVersions ==
  { [headers |-> HeadersOf(Some("T1"), Some("E1"), Some("100")),
     content |-> <<1>>],
    [headers |-> HeadersOf(Some("T1"), Some("E2"), Some("100")),
     content |-> <<1>>],
    [headers |-> NoHeaders, content |-> <<>>],
    [headers |-> HeadersOf(Some("T1"), Some("E1"), Some("abc")),
     content |-> <<1>>],
    [headers |-> HeadersOf(Some("T2"), Some("E2"), Some("200")),
     content |-> <<>>] }

\* the requests of one check of a detection run: both meet one
\* representation, and each can fail
RunRequests ==
  { [head |-> h, get |-> g] :
      h \in {HeadRaised, HeadStatus(404, NoHeaders)} \cup
            {HeadStatus(200, v.headers) : v \in ServerVersions},
      g \in GetOutcomes }

\* ------------------------------------------------------------------------
\* State
\* ------------------------------------------------------------------------
VARIABLES
  knownFile,     \* data/metadata/known_documents.json
  changesFile,   \* data/metadata/changes.json
  summaryFile,   \* data/metadata/last_run_summary.json
  store,         \* data/acs-documents: path -> Optional[bytes]
  clock,         \* datetime.now(): the number of the current run
  pc,            \* "idle" between runs, "loop" inside the for loop
  known_docs,    \* monitor(): the records loaded at the start of the run
  known_urls,    \* monitor(): url -> loaded record
  current_docs,  \* monitor(): the candidates discovery returned
  idx,           \* monitor(): position of the for loop in current_docs
  changes,       \* monitor(): change events of this run
  all_docs,      \* monitor(): records to save at the end of the run
  log,           \* the document checks of this run: requests and verdicts
  failures,      \* failed requests and writes so far
  checks,        \* document checks so far
  slept          \* monitor(): seconds spent in time.sleep in this run

\* pdf_processor.py: the extraction engine
VARIABLES
  ppc,               \* position of the extraction run
  dirs,              \* the directories that exist
  processing_method, \* PDFProcessor.processing_method
  pdf_files,         \* process_all_documents(): the PDFs the glob returned
  pidx,              \* process_all_documents(): position of the for loop
  cur_doc,           \* the ProcessedDocument of the PDF being processed
  processed_docs,    \* process_all_documents(): the documents processed
  artifacts,         \* files written under extracted-text and metadata
  processingSummary, \* data/metadata/processing_summary.json
  elog               \* the PDFs of this extraction run: what happened to each

engineVars == <<ppc, dirs, processing_method, pdf_files, pidx, cur_doc,
                processed_docs, artifacts, processingSummary, elog>>

vars == <<knownFile, changesFile, summaryFile, store, clock, pc, known_docs,
          known_urls, current_docs, idx, changes, all_docs, log, failures,
          checks, slept, engineVars>>

\* the directories FAAMonitor() creates
MonitorDirs == {"data/acs-documents", "data/metadata", "logs"}

\* pdf_processor.py is not running
EngineOff ==
  /\ ppc = "off"
  /\ dirs = MonitorDirs
  /\ processing_method = None
  /\ pdf_files = <<>>
  /\ pidx = 1
  /\ cur_doc = None
  /\ processed_docs = <<>>
  /\ artifacts = {}
  /\ processingSummary = NoFile
  /\ elog = <<>>

\* a change event as monitor() appends it
ChangeEvent(type, doc, now) ==
  [type |-> type, document |-> ToJson(doc), timestamp |-> now]

\* FAAMonitor(): directories created, nothing in them
Init ==
  /\ knownFile = NoFile
  /\ changesFile = NoFile
  /\ summaryFile = NoFile
  /\ store = [p \in StorePaths |-> None]
  /\ clock = 1
  /\ pc = "idle"
  /\ known_docs = <<>>
  /\ known_urls = <<>>
  /\ current_docs = <<>>
  /\ idx = 1
  /\ changes = <<>>
  /\ all_docs = <<>>
  /\ log = <<>>
  /\ failures = 0
  /\ checks = 0
  /\ slept = 0
  /\ EngineOff

\* lists of candidates of length at most n
RECURSIVE CandidateLists(_)
CandidateLists(n) ==
  IF n = 0 THEN { <<>> }
  ELSE LET shorter == CandidateLists(n - 1)
       IN shorter \cup
          { Append(l, c) : l \in {s \in shorter : Len(s) = n - 1},
                           c \in Candidates }

\* discover_acs_documents: the anchors of the page in page order, one
\* ACSDocument each; the empty list when the scrape raises
Discovered(list, now) ==
  [k \in 1..Len(list) |->
     ACSDocument(list[k].name, list[k].url, None, None, None, Some(now))]

\* monitor(), lines 223-231: load the registry, discover
StartRun ==
  /\ pc = "idle"
  /\ clock <= MaxRuns
  /\ \E list \in CandidateLists(MaxDiscovered) :
       /\ checks + Len(list) <= MaxChecks
       /\ current_docs' = Discovered(list, clock)
       /\ checks' = checks + Len(list)
  /\ known_docs' = LoadKnownDocuments(knownFile)
  /\ known_urls' = KnownUrls(known_docs')
  /\ changes' = <<>>
  /\ all_docs' = <<>>
  /\ idx' = 1
  /\ pc' = "loop"
  /\ log' = <<>>
  /\ slept' = 0
  /\ UNCHANGED <<knownFile, changesFile, summaryFile, store, clock, failures,
                 engineVars>>

\* time.sleep(2) at the top of every iteration of the loop
SleepSeconds == 2

Sleep_None(t) == t

\* the seconds slept in this run after the sleep of line 235
Sleep(t) == t + SleepSeconds

\* requests and writes of one check that failed
FailuresOf(head, get, r) ==
  IF CheckRaises(head) \/ head.status # 200 THEN 1
  ELSE IF r.fetched /\ ~get.ok THEN 1
  ELSE IF r.write \in {"open_error", "write_error"} THEN 1
  ELSE 0

\* what the log keeps of one check: the requests it made, the verdict it
\* returned, the number of events appended, the seconds slept in this run
\* when the iteration began and when its first request was sent
LogEntry(kind, head, get, r, fetched, emitted, after, started) ==
  [ kind |-> kind, head |-> head,
    get |-> IF fetched THEN get ELSE GetFailed,
    write |-> r.write, changed |-> r.changed, fetched |-> fetched,
    emitted |-> emitted, after |-> after, started |-> started ]

\* monitor(), lines 233-246: one iteration of the loop on a known url
CheckKnownOn(requests) ==
  /\ pc = "loop"
  /\ idx <= Len(current_docs)
  /\ current_docs[idx].url \in DOMAIN known_urls
  /\ \E req \in requests, wr \in WriteOutcomes :
       LET r == check_document_changes(known_urls[current_docs[idx].url],
                                       req.head, req.get, wr, store, clock)
           f == FailuresOf(req.head, req.get, r)
       IN /\ failures + f <= MaxFailures
          /\ failures' = failures + f
          /\ changes' = IF r.changed
                        THEN Append(changes,
                                    ChangeEvent("updated", r.document, clock))
                        ELSE changes
          /\ all_docs' = Append(all_docs, r.document)
          /\ store' = r.store
          /\ log' = Append(log, LogEntry("known", req.head, req.get, r,
                                         r.fetched,
                                         Len(changes') - Len(changes),
                                         slept, Sleep(slept)))
  /\ slept' = Sleep(slept)
  /\ idx' = idx + 1
  /\ UNCHANGED <<knownFile, changesFile, summaryFile, clock, pc, known_docs,
                 known_urls, current_docs, checks, engineVars>>

CheckKnown == CheckKnownOn(RunRequests)

\* monitor(), lines 233-236 and 247-256: one iteration of the loop on a url
\* that is not in the registry
CheckNew ==
  /\ pc = "loop"
  /\ idx <= Len(current_docs)
  /\ current_docs[idx].url \notin DOMAIN known_urls
  /\ \E get \in GetOutcomes, wr \in WriteOutcomes :
       LET r == download_and_verify(current_docs[idx], get, wr, store)
           f == IF r.changed THEN 0 ELSE 1
       IN /\ failures + f <= MaxFailures
          /\ failures' = failures + f
          /\ changes' = Append(changes,
                               ChangeEvent("new", r.document, clock))
          /\ all_docs' = Append(all_docs, r.document)
          /\ store' = r.store
          /\ log' = Append(log, LogEntry("new", HeadRaised, get, r, TRUE,
                                         Len(changes') - Len(changes),
                                         slept, Sleep(slept)))
  /\ slept' = Sleep(slept)
  /\ idx' = idx + 1
  /\ UNCHANGED <<knownFile, changesFile, summaryFile, clock, pc, known_docs,
                 known_urls, current_docs, checks, engineVars>>

\* monitor(), lines 258-283: save the registry, the change log, the summary
FinishRun ==
  /\ pc = "loop"
  /\ idx > Len(current_docs)
  /\ knownFile' = SaveKnownDocuments(all_docs)
  /\ changesFile' = IF changes # <<>> THEN FileOf(changes) ELSE changesFile
  /\ summaryFile' = FileOf(<<[timestamp |-> clock,
                             total_documents |-> Len(all_docs),
                             changes_detected |-> Len(changes),
                             changes |-> changes]>>)
  /\ clock' = clock + 1
  /\ pc' = "idle"
  /\ known_docs' = <<>>
  /\ known_urls' = <<>>
  /\ current_docs' = <<>>
  /\ idx' = 1
  /\ changes' = <<>>
  /\ all_docs' = <<>>
  /\ log' = <<>>
  /\ slept' = 0
  /\ UNCHANGED <<store, failures, checks, engineVars>>

Next == StartRun \/ CheckKnown \/ CheckNew \/ FinishRun

Spec == Init /\ [][Next]_vars

\* ------------------------------------------------------------------------
\* check_document_changes on every record and every answer of the server
\* ------------------------------------------------------------------------
\* records a registry can hold for the first candidate: any validators, and
\* hash and local path as download_and_verify sets them (both or none)
KnownRecords ==
  { [ name |-> NameA, url |-> "u1", last_modified |-> lm, etag |-> et,
      content_hash |-> ch, file_size |-> fs,
      local_path |-> IF ch = None THEN None ELSE Some(LocalPath(NameA)),
      last_checked |-> Some(1) ] :
      lm \in OptOf(LastModifiedValues), et \in OptOf(ETagValues),
      fs \in OptOf({100, 200}),
      ch \in OptOf({SHA256(b) : b \in Payloads}) }

\* the second run, on a registry of one record, has discovered its url
InitCheck ==
  /\ \E d \in KnownRecords :
       /\ knownFile = SaveKnownDocuments(<<d>>)
       /\ known_docs = <<d>>
       /\ known_urls = KnownUrls(<<d>>)
       /\ store = [p \in StorePaths |->
                     IF d.content_hash = None THEN None ELSE Some(<<1>>)]
  /\ changesFile = NoFile
  /\ summaryFile = NoFile
  /\ clock = 2
  /\ pc = "loop"
  /\ current_docs = Discovered(<<[name |-> NameA, url |-> "u1"]>>, 2)
  /\ idx = 1
  /\ changes = <<>>
  /\ all_docs = <<>>
  /\ log = <<>>
  /\ failures = 0
  /\ checks = 1
  /\ slept = 0
  /\ EngineOff

CheckAny == CheckKnownOn(AllRequests)

NextCheck == CheckAny

SpecCheck == InitCheck /\ [][NextCheck]_vars

\* ------------------------------------------------------------------------
\* Properties
\* ------------------------------------------------------------------------
\* a step of the for loop of monitor(): the check of current_docs[idx]
CheckStep == pc = "loop" /\ idx' = idx + 1
\* the step that ends the run and writes the files
FinishStep == pc = "loop" /\ pc' = "idle"
\* the check in progress is on a url of the registry
OnKnown == current_docs[idx].url \in DOMAIN known_urls
\* the record the registry held for it when the run started
Before == known_urls[current_docs[idx].url]
\* the probe got a 200 response whose headers could be read
ProbeOk(head) == ~head.raised /\ head.status = 200 /\ ~CheckRaises(head)
\* validators, hash and local path of two records agree
SameContentFields(a, b) ==
  /\ a.last_modified = b.last_modified
  /\ a.etag = b.etag
  /\ a.file_size = b.file_size
  /\ a.content_hash = b.content_hash
  /\ a.local_path = b.local_path

\* C1: a known document whose record holds a hash, whose probe escalates
\* and whose fetched bytes hash to the stored hash is reported unchanged:
\* changed = false, the record kept has the validators, hash and local path
\* it had before the run, and no event is appended.
C1_HeaderNoiseIsNoChange ==
  [][ (/\ CheckStep
       /\ OnKnown
       /\ ProbeOk(log'[idx].head)
       /\ log'[idx].fetched
       /\ log'[idx].get.ok
       /\ Before.content_hash = Some(SHA256(log'[idx].get.content)))
      => (/\ ~log'[idx].changed
          /\ SameContentFields(all_docs'[idx], Before)
          /\ log'[idx].emitted = 0) ]_vars

\* the byte size of the probe equals the stored one
SizeEqual(headers, known) ==
  ~ContentLengthRaises(headers) /\ FileSize(headers) = known.file_size

\* C2 as stated: on a known record and a probe answered with status 200,
\* the body is not requested if and only if last-modified, entity-tag and
\* byte size of the probe each equal the stored value.
C2_NoChangeIffAllEqual ==
  (pc = "loop" /\ Len(log) >= 1 /\ log[Len(log)].kind = "known"
     /\ ~log[Len(log)].head.raised /\ log[Len(log)].head.status = 200)
  => LET e == log[Len(log)]
         known == known_urls[current_docs[Len(log)].url]
     IN (~e.fetched) <=>
          (/\ e.head.headers.last_modified = known.last_modified
           /\ e.head.headers.etag = known.etag
           /\ SizeEqual(e.head.headers, known))

\* C2 amended: on a known record and a probe answered with status 200
\* whose Content-Length is missing, empty or a decimal number, the body is
\* not requested if and only if last-modified, entity-tag and byte size of
\* the probe each equal the stored value, None equal to None only (the byte
\* size is None when the Content-Length is missing or empty); a
\* Content-Length that is no number requests no body.
C2_NoChangeIffAllEqualReadable ==
  (pc = "loop" /\ Len(log) >= 1 /\ log[Len(log)].kind = "known"
     /\ ~log[Len(log)].head.raised /\ log[Len(log)].head.status = 200)
  => LET e == log[Len(log)]
         known == known_urls[current_docs[Len(log)].url]
     IN IF ContentLengthRaises(e.head.headers)
        THEN ~e.fetched
        ELSE (~e.fetched) <=>
               (/\ e.head.headers.last_modified = known.last_modified
                /\ e.head.headers.etag = known.etag
                /\ FileSize(e.head.headers) = known.file_size)

\* C2 witness: stored validators T1, E1, 100, the probe returns the same
\* three, no body is requested
C2_Witness ==
  /\ pc = "loop" /\ Len(log) = 1 /\ log[1].kind = "known"
  /\ ProbeOk(log[1].head)
  /\ ~log[1].fetched
  /\ known_urls["u1"].last_modified = Some("T1")
  /\ known_urls["u1"].etag = Some("E1")
  /\ known_urls["u1"].file_size = Some(100)
  /\ log[1].head.headers =
       HeadersOf(Some("T1"), Some("E1"), Some("100"))

\* the events of a change log that carry the JSON record doc
EventsFor(file, type, doc) ==
  { j \in 1..Len(file.data) :
      file.data[j].type = type /\ file.data[j].document = doc }

UrlsOf(file) == { file.data[k].url : k \in 1..Len(file.data) }

\* C4: every url of known_documents.json before a run is in it after the
\* run.
C4_RegistryKeepsUrls ==
  [][ FinishStep => UrlsOf(knownFile) \subseteq UrlsOf(knownFile') ]_vars

\* C5: known_documents.json holds at most one record per url.
C5_UrlsUnique ==
  \A j, k \in 1..Len(knownFile.data) :
    knownFile.data[j].url = knownFile.data[k].url => j = k

\* C6: after a run, changes.json holds the events of that run and no
\* other: it is absent or empty when the run detected no change.
C6_ChangeLogIsOfThisRun ==
  [][ FinishStep =>
        IF changes = <<>>
        THEN ~changesFile'.exists \/ changesFile'.data = <<>>
        ELSE changesFile' = FileOf(changes) ]_vars

\* the probe of a check failed: the request raised or the status is not 200
ProbeFailed(head) == head.raised \/ head.status # 200

\* C7: when the probe of a known document fails, no body is requested, the
\* verdict is changed = false, no event is appended, and the record saved
\* at the end of the run is the record the registry held before the run,
\* last_checked included.
C7_FailedProbeKeepsRecord ==
  [][ /\ (CheckStep /\ OnKnown /\ ProbeFailed(log'[idx].head))
         => (/\ ~log'[idx].fetched
             /\ ~log'[idx].changed
             /\ log'[idx].emitted = 0
             /\ changes' = changes
             /\ store' = store
             /\ all_docs'[idx] = Before)
      /\ FinishStep
         => \A k \in 1..Len(log) :
              (log[k].kind = "known" /\ ProbeFailed(log[k].head))
              => (/\ knownFile'.data[k] =
                       ToJson(known_urls[current_docs[k].url])
                  /\ \E j \in 1..Len(knownFile.data) :
                       knownFile.data[j] = knownFile'.data[k]) ]_vars

\* C7 witness: in the second run the probe of a known document has failed;
\* the record kept is the loaded one, checked last in the first run
C7_Witness ==
  /\ pc = "loop" /\ clock = 2
  /\ \E k \in 1..Len(log) :
       /\ log[k].kind = "known"
       /\ ProbeFailed(log[k].head)
       /\ all_docs[k] = known_urls[current_docs[k].url]
       /\ all_docs[k].last_checked = Some(1)

\* C8: when a known document escalates and the fetch of its body fails,
\* the record saved at the end of the run holds the validators and the hash
\* the registry held before the run.
C8_FailedFetchKeepsSignals ==
  [][ FinishStep =>
        \A k \in 1..Len(log) :
          (log[k].kind = "known" /\ log[k].fetched /\ ~log[k].get.ok)
          => LET saved == knownFile'.data[k]
                 before == ToJson(known_urls[current_docs[k].url])
             IN /\ saved.last_modified = before.last_modified
                /\ saved.etag = before.etag
                /\ saved.file_size = before.file_size
                /\ saved.content_hash = before.content_hash ]_vars

\* ------------------------------------------------------------------------
\* download_and_verify on every record and every answer of the server
\* ------------------------------------------------------------------------
\* all_docs holds the record passed; the call appends the record returned
InitVerify ==
  /\ \E d \in KnownRecords : all_docs = <<d>>
  /\ store \in [StorePaths -> OptOf(Payloads)]
  /\ knownFile = NoFile
  /\ changesFile = NoFile
  /\ summaryFile = NoFile
  /\ clock = 2
  /\ pc = "verify"
  /\ known_docs = <<>>
  /\ known_urls = <<>>
  /\ current_docs = <<>>
  /\ idx = 1
  /\ changes = <<>>
  /\ log = <<>>
  /\ failures = 0
  /\ checks = 0
  /\ slept = 0
  /\ EngineOff

CallDownloadAndVerify ==
  /\ pc = "verify"
  /\ \E get \in GetOutcomes, wr \in WriteOutcomes :
       LET r == download_and_verify(all_docs[1], get, wr, store)
       IN /\ all_docs' = Append(all_docs, r.document)
          /\ store' = r.store
          /\ log' = <<LogEntry("verify", HeadRaised, get, r, TRUE, 0,
                               slept, slept)>>
  /\ pc' = "verified"
  /\ UNCHANGED <<knownFile, changesFile, summaryFile, clock, known_docs,
                 known_urls, current_docs, idx, changes, failures, checks,
                 slept, engineVars>>

NextVerify == CallDownloadAndVerify

SpecVerify == InitVerify /\ [][NextVerify]_vars

\* C9: when the hash of the fetched bytes equals the content hash of the
\* record passed, download_and_verify returns changed = false and the
\* record passed, and writes nothing to the content store.
C9_EqualHashIsUnchanged ==
  [][ (/\ pc = "verify" /\ pc' = "verified"
       /\ log'[1].get.ok
       /\ all_docs[1].content_hash = Some(SHA256(log'[1].get.content)))
      => (/\ ~log'[1].changed
          /\ all_docs'[2] = all_docs[1]
          /\ log'[1].write = "none"
          /\ store' = store) ]_vars

\* C9 witness: the record passed holds the hash of the empty payload and
\* the empty payload was fetched
C9_Witness ==
  /\ pc = "verified"
  /\ log[1].get = GetOk(<<>>)
  /\ all_docs[1].content_hash = Some(SHA256(<<>>))
  /\ ~log[1].changed
  /\ all_docs[2] = all_docs[1]

\* ------------------------------------------------------------------------
\* save_known_documents then load_known_documents
\* ------------------------------------------------------------------------
\* records of a url with every field present or absent
RoundTripRecords ==
  { [ name |-> c.name, url |-> c.url, last_modified |-> lm, etag |-> et,
      content_hash |-> ch, file_size |-> fs, local_path |-> lp,
      last_checked |-> lc ] :
      c \in Candidates, lm \in OptOf({"T1"}), et \in OptOf({"E1"}),
      ch \in OptOf({SHA256(<<>>)}), fs \in OptOf({0, 100}),
      lp \in OptOf({LocalPath(NameA)}), lc \in OptOf({1}) }

\* lists of such records with pairwise distinct urls
RoundTripLists ==
  { <<>> } \cup { <<d>> : d \in RoundTripRecords } \cup
  { l \in { <<d, e>> : d \in RoundTripRecords, e \in RoundTripRecords } :
      l[1].url # l[2].url }

InitRoundTrip ==
  /\ all_docs \in RoundTripLists
  /\ store = [p \in StorePaths |-> None]
  /\ knownFile = NoFile
  /\ changesFile = NoFile
  /\ summaryFile = NoFile
  /\ clock = 2
  /\ pc = "save"
  /\ known_docs = <<>>
  /\ known_urls = <<>>
  /\ current_docs = <<>>
  /\ idx = 1
  /\ changes = <<>>
  /\ log = <<>>
  /\ failures = 0
  /\ checks = 0
  /\ slept = 0
  /\ EngineOff

CallSave ==
  /\ pc = "save"
  /\ knownFile' = SaveKnownDocuments(all_docs)
  /\ pc' = "load"
  /\ UNCHANGED <<changesFile, summaryFile, store, clock, known_docs,
                 known_urls, current_docs, idx, changes, all_docs, log,
                 failures, checks, slept, engineVars>>

CallLoad ==
  /\ pc = "load"
  /\ known_docs' = LoadKnownDocuments(knownFile)
  /\ known_urls' = KnownUrls(known_docs')
  /\ pc' = "loaded"
  /\ UNCHANGED <<knownFile, changesFile, summaryFile, store, clock,
                 current_docs, idx, changes, all_docs, log, failures, checks,
                 slept, engineVars>>

NextRoundTrip == CallSave \/ CallLoad

SpecRoundTrip == InitRoundTrip /\ [][NextRoundTrip]_vars

\* C10: loading a saved list of records with pairwise distinct urls yields
\* the same set of urls, one record per url, each field equal to the field
\* saved, an absent field absent.
C10_SaveLoadRoundTrip ==
  pc = "loaded"
  => /\ {known_docs[k].url : k \in 1..Len(known_docs)} =
          {all_docs[k].url : k \in 1..Len(all_docs)}
     /\ Len(known_docs) = Len(all_docs)
     /\ \A k \in 1..Len(all_docs) :
          /\ all_docs[k].url \in DOMAIN known_urls
          /\ known_urls[all_docs[k].url] = all_docs[k]

\* C10 witness: two records were saved and loaded, one with every optional
\* field absent, one with a byte size of 0
C10_Witness ==
  /\ pc = "loaded"
  /\ Len(all_docs) = 2
  /\ Len(known_docs) = 2
  /\ all_docs[1].file_size = None /\ all_docs[1].content_hash = None
  /\ all_docs[1].last_modified = None /\ all_docs[1].etag = None
  /\ all_docs[1].local_path = None /\ all_docs[1].last_checked = None
  /\ known_docs[1] = all_docs[1]
  /\ all_docs[2].file_size = Some(0)
  /\ known_docs[2].file_size = Some(0)

\* ------------------------------------------------------------------------
\* A run on every snapshot of the registry
\* ------------------------------------------------------------------------
\* the records a run saves for the candidates it stored as new
SavedRecords(list) ==
  [k \in 1..Len(list) |->
     [ name |-> list[k].name, url |-> list[k].url, last_modified |-> None,
       etag |-> None, content_hash |-> Some(SHA256(<<1>>)),
       file_size |-> None, local_path |-> Some(LocalPath(list[k].name)),
       last_checked |-> Some(1) ]]

\* an object with a key ACSDocument does not take
WithUnknownKey(obj) ==
  [key \in DOMAIN obj \cup {"note"} |->
     IF key = "note" THEN <<"null">> ELSE obj[key]]

\* an object without the name key
WithoutName(obj) == [key \in DOMAIN obj \ {"name"} |-> obj[key]]

\* an object that holds name and url only
Bare(obj) == [name |-> obj.name, url |-> obj.url]

\* the array with its last object replaced
ReplaceLast(data, obj) == [data EXCEPT ![Len(data)] = obj]

\* known_documents.json at the start of a run: absent, as a run wrote it
\* for candidates of distinct urls, written by hand with the defaults left
\* out, cut off inside the array, or holding an object ACSDocument(**obj)
\* rejects
Snapshots ==
  LET lists == { l \in CandidateLists(MaxDiscovered) :
                   \A i, j \in DOMAIN l : i # j => l[i].url # l[j].url }
      arrays == { SaveKnownDocuments(SavedRecords(l)).data : l \in lists }
      full == { a \in arrays : a # <<>> }
  IN {NoFile} \cup { FileOf(a) : a \in arrays }
       \cup { FileOf(ReplaceLast(a, Bare(a[Len(a)]))) : a \in full }
       \cup { Truncated(SubSeq(a, 1, Len(a) - 1)) : a \in full }
       \cup { FileOf(ReplaceLast(a, WithUnknownKey(a[Len(a)]))) : a \in full }
       \cup { FileOf(ReplaceLast(a, WithoutName(a[Len(a)]))) : a \in full }

\* the last run is about to start
InitLoad ==
  /\ knownFile \in Snapshots
  /\ store = [p \in StorePaths |->
                IF knownFile.exists THEN Some(<<1>>) ELSE None]
  /\ changesFile = NoFile
  /\ summaryFile = NoFile
  /\ clock = MaxRuns
  /\ pc = "idle"
  /\ known_docs = <<>>
  /\ known_urls = <<>>
  /\ current_docs = <<>>
  /\ idx = 1
  /\ changes = <<>>
  /\ all_docs = <<>>
  /\ log = <<>>
  /\ failures = 0
  /\ checks = 0
  /\ slept = 0
  /\ EngineOff

SpecLoad == InitLoad /\ [][Next]_vars

\* the snapshot is absent or reading it raises
Unreadable(file) == ~file.exists \/ ~Parses(file)

\* C11: when known_documents.json does not exist or fails to parse, the load
\* yields the empty registry; the run goes on, checks every discovered
\* document as a new one and records a new event for it.
C11_UnreadableSnapshotIsEmpty ==
  [][ Unreadable(knownFile) =>
        /\ (pc = "idle" /\ pc' = "loop") =>
             known_docs' = <<>> /\ known_urls' = <<>>
        /\ CheckStep =>
             /\ log'[idx].kind = "new"
             /\ changes' = Append(changes,
                                  ChangeEvent("new", all_docs'[idx], clock))
        /\ FinishStep =>
             /\ Len(all_docs) = Len(current_docs)
             /\ \A k \in 1..Len(log) : log[k].kind = "new" ]_vars

\* a document of a snapshot that does not parse has been checked as new
C11_Witness ==
  /\ pc = "loop"
  /\ knownFile.exists
  /\ ~Parses(knownFile)
  /\ idx > 1
  /\ log[1].kind = "new"
  /\ \E k \in 1..Len(knownFile.data) :
       knownFile.data[k].url[2] = current_docs[1].url

\* ------------------------------------------------------------------------
\* Properties of the detection run, continued
\* ------------------------------------------------------------------------
\* C12: the checks of a run are made one after the other, and each of them,
\* on a known url and on a new one alike, sends its first request at least
\* SleepSeconds of blocking delay after the previous check finished.
C12_EveryCheckAfterDelay ==
  pc = "loop" =>
    /\ Len(log) = idx - 1
    /\ \A k \in 1..Len(log) :
         /\ log[k].after = IF k = 1 THEN 0 ELSE log[k - 1].started
         /\ log[k].started >= log[k].after + SleepSeconds

\* a run has checked a new url and then a known one
C12_Witness ==
  /\ pc = "loop"
  /\ Len(log) = 2
  /\ log[1].kind = "new"
  /\ log[2].kind = "known"
  /\ slept = 2 * SleepSeconds

\* C18: when the fetch of a new document fails, no event is appended for it,
\* and every event of changes.json carries a document that has a content
\* hash and a local path.
C18_EventsCarryHashAndPath ==
  /\ pc = "loop" =>
       \A k \in 1..Len(log) :
         (log[k].kind = "new" /\ ~log[k].get.ok) => log[k].emitted = 0
  /\ \A k \in 1..Len(changesFile.data) :
       /\ changesFile.data[k].document.content_hash # <<"null">>
       /\ changesFile.data[k].document.local_path # <<"null">>

\* C19: when the probe of a known document finds no difference, the record
\* saved at the end of the run has the content hash and the local path of
\* the record the registry held before the run.
C19_NoChangeKeepsHashAndPath ==
  [][ FinishStep =>
        \A k \in 1..Len(log) :
          (log[k].kind = "known" /\ ProbeOk(log[k].head) /\ ~log[k].fetched)
          => LET saved == knownFile'.data[k]
                 before == ToJson(known_urls[current_docs[k].url])
             IN /\ saved.content_hash = before.content_hash
                /\ saved.local_path = before.local_path ]_vars

\* ------------------------------------------------------------------------
\* pdf_processor.py: regular expressions
\* ------------------------------------------------------------------------
\* a text is a sequence of characters; re.IGNORECASE folds the letters
UpperCase == <<"A", "B", "C", "D", "E", "F", "G", "H", "I", "J", "K", "L", "M", "N",
              "O", "P", "Q", "R", "S", "T", "U", "V", "W", "X", "Y", "Z">>
LowerCase == <<"a", "b", "c", "d", "e", "f", "g", "h", "i", "j", "k", "l", "m", "n",
              "o", "p", "q", "r", "s", "t", "u", "v", "w", "x", "y", "z">>
Letters == { UpperCase[k] : k \in DOMAIN UpperCase } \cup
           { LowerCase[k] : k \in DOMAIN LowerCase }
Digits == {"0", "1", "2", "3", "4", "5", "6", "7", "8", "9"}
\* the characters \s matches and str.strip() removes
Whitespace == {" ", "\n", "\t"}

\* the characters a pattern character matches under re.IGNORECASE
CaseFold(c) ==
  {c} \cup { LowerCase[k] : k \in {j \in DOMAIN UpperCase : UpperCase[j] = c} }
      \cup { UpperCase[k] : k \in {j \in DOMAIN LowerCase : LowerCase[j] = c} }

\* an element of a pattern: a character set with a quantifier, or the
\* opening or closing parenthesis of a group
One(S) == [kind |-> "set", set |-> S, neg |-> FALSE, q |-> "1", group |-> 0]
Opt(S) == [kind |-> "set", set |-> S, neg |-> FALSE, q |-> "?", group |-> 0]
Star(S) == [kind |-> "set", set |-> S, neg |-> FALSE, q |-> "*", group |-> 0]
Plus(S) == [kind |-> "set", set |-> S, neg |-> FALSE, q |-> "+", group |-> 0]
NotPlus(S) == [kind |-> "set", set |-> S, neg |-> TRUE, q |-> "+", group |-> 0]
Open(n) == [kind |-> "open", set |-> {}, neg |-> FALSE, q |-> "1", group |-> n]
Close(n) == [kind |-> "close", set |-> {}, neg |-> FALSE, q |-> "1", group |-> n]
\* the characters of a word, each matched whatever its case
Lit(word) == [k \in 1..Len(word) |-> One(CaseFold(word[k]))]

Accepts(e, c) == (c \in e.set) # e.neg

\* the number of characters from position j on that the set of e accepts
RECURSIVE Run(_, _, _)
Run(e, text, j) ==
  IF j <= Len(text) /\ Accepts(e, text[j]) THEN 1 + Run(e, text, j + 1) ELSE 0

\* 1 when the set of e accepts the character at position j, 0 otherwise
CanTake(e, text, j) ==
  IF j <= Len(text) /\ Accepts(e, text[j]) THEN 1 ELSE 0

NoMatch == [ok |-> FALSE, end |-> 0, groups |-> <<>>]
NoGroups == << <<0, 0>>, <<0, 0>> >>

\* the match of pat from element i on at position j of the text, as the
\* backtracking matcher of re finds it: a quantifier takes as many
\* characters as it can and gives them back one by one; a group is the
\* pair of the position of its first character and the position after its
\* last one
RECURSIVE MatchFrom(_, _, _, _, _)
RECURSIVE TryCounts(_, _, _, _, _, _, _)
TryCounts(pat, i, text, j, groups, count, least) ==
  IF count < least THEN NoMatch
  ELSE LET r == MatchFrom(pat, i + 1, text, j + count, groups)
       IN IF r.ok THEN r
          ELSE TryCounts(pat, i, text, j, groups, count - 1, least)

MatchFrom(pat, i, text, j, groups) ==
  IF i > Len(pat) THEN [ok |-> TRUE, end |-> j, groups |-> groups]
  ELSE LET e == pat[i]
       IN CASE e.kind = "open" ->
                 MatchFrom(pat, i + 1, text, j,
                           [groups EXCEPT ![e.group] = <<j, j>>])
            [] e.kind = "close" ->
                 MatchFrom(pat, i + 1, text, j,
                           [groups EXCEPT ![e.group][2] = j])
            [] e.q = "1" ->
                 TryCounts(pat, i, text, j, groups, CanTake(e, text, j), 1)
            [] e.q = "?" ->
                 TryCounts(pat, i, text, j, groups, CanTake(e, text, j), 0)
            [] e.q = "*" ->
                 TryCounts(pat, i, text, j, groups, Run(e, text, j), 0)
            [] e.q = "+" ->
                 TryCounts(pat, i, text, j, groups, Run(e, text, j), 1)

\* re.finditer: the matches from left to right, each search starting where
\* the previous match ended; no pattern of the module matches the empty text
RECURSIVE FindIter(_, _, _)
FindIter(pat, text, start) ==
  IF start > Len(text) THEN <<>>
  ELSE LET r == MatchFrom(pat, 1, text, start, NoGroups)
       IN IF r.ok
          THEN <<[start |-> start, end |-> r.end, groups |-> r.groups]>>
               \o FindIter(pat, text, r.end)
          ELSE FindIter(pat, text, start + 1)

\* match.group(n) and match.group(0)
Group(text, m, n) == SubSeq(text, m.groups[n][1], m.groups[n][2] - 1)
Group0(text, m) == SubSeq(text, m.start, m.end - 1)

\* str.strip()
RECURSIVE Strip(_)
Strip(str) ==
  IF str = <<>> THEN <<>>
  ELSE IF Head(str) \in Whitespace THEN Strip(Tail(str))
  ELSE IF str[Len(str)] \in Whitespace
       THEN Strip(SubSeq(str, 1, Len(str) - 1))
  ELSE str

\* ------------------------------------------------------------------------
\* parse_acs_sections and extract_acs_standards
\* ------------------------------------------------------------------------
\* the literal parts of the patterns
AreaOfOperationWord ==
  <<"A", "R", "E", "A", " ", "O", "F", " ", "O", "P", "E", "R", "A", "T",
  "I", "O", "N">>
TaskWord == <<"T", "A", "S", "K">>
ReferenceWord == <<"R", "E", "F", "E", "R", "E", "N", "C", "E">>
ObjectiveWord == <<"O", "B", "J", "E", "C", "T", "I", "V", "E">>
KnowledgeWord == <<"K", "N", "O", "W", "L", "E", "D", "G", "E">>
RiskManagementWord ==
  <<"R", "I", "S", "K", " ", "M", "A", "N", "A", "G", "E", "M", "E", "N",
  "T">>
SkillsWord == <<"S", "K", "I", "L", "L", "S">>
CfrPartWord == <<"1", "4", " ", "C", "F", "R", " ", "p", "a", "r", "t", " ">>
AcWord == <<"A", "C", " ">>
AimWord == <<"A", "I", "M", " ">>
PohAfmWord == <<"P", "O", "H", "/", "A", "F", "M">>

\* [IVXLC] under re.IGNORECASE
RomanDigits ==
  UNION { CaseFold(c) : c \in {"I", "V", "X", "L", "C"} }

\* \s*([^\n]+): the rest of the line, the second group of every rule
RestOfLine == <<Star(Whitespace), Open(2), NotPlus({"\n"}), Close(2)>>

\* (WORD:?\s*)([^\n]+), with an optional S after the word for REFERENCES?
KeywordRule(word, plural) ==
  <<Open(1)>> \o Lit(word) \o plural \o
  <<Opt({":"}), Star(Whitespace), Close(1), Open(2), NotPlus({"\n"}),
    Close(2)>>

\* section_patterns, lines 165-173, in the order of the list
section_patterns ==
  << <<Open(1)>> \o Lit(AreaOfOperationWord) \o
       <<Plus(Whitespace), Plus(RomanDigits), Close(1), Star(Whitespace),
         One({":", "-"})>> \o RestOfLine,
     <<Open(1)>> \o Lit(TaskWord) \o
       <<Plus(Whitespace), Plus(Letters), Close(1), One({"."})>> \o
       RestOfLine,
     KeywordRule(ReferenceWord, <<Opt(CaseFold("S"))>>),
     KeywordRule(ObjectiveWord, <<>>),
     KeywordRule(KnowledgeWord, <<>>),
     KeywordRule(RiskManagementWord, <<>>),
     KeywordRule(SkillsWord, <<>>) >>

\* the section appended for one match, lines 181-189
SectionOf(text, m) ==
  [ type |-> Strip(Group(text, m, 1)), content |-> Strip(Group(text, m, 2)),
    position |-> m.start - 1, length |-> m.end - m.start ]

\* the sections of one pattern, in the order finditer yields the matches
SectionsOf(pat, text) ==
  LET ms == FindIter(pat, text, 1)
  IN [k \in 1..Len(ms) |-> SectionOf(text, ms[k])]

\* the list after the loop over the first n patterns
RECURSIVE Collected(_, _)
Collected(n, text) ==
  IF n = 0 THEN <<>>
  ELSE Collected(n - 1, text) \o SectionsOf(section_patterns[n], text)

\* list.sort(key=position): a stable sort
InsertByPosition(sorted, sec) ==
  LET n == Cardinality({k \in 1..Len(sorted) :
                          sorted[k].position <= sec.position})
  IN SubSeq(sorted, 1, n) \o <<sec>> \o SubSeq(sorted, n + 1, Len(sorted))

RECURSIVE SortByPosition(_)
SortByPosition(secs) ==
  IF secs = <<>> THEN <<>>
  ELSE InsertByPosition(SortByPosition(SubSeq(secs, 1, Len(secs) - 1)),
                        secs[Len(secs)])

\* the parse that drops a section lying inside an earlier one
parse_acs_sections_NoOverlap(text) ==
  LET all == SortByPosition(Collected(Len(section_patterns), text))
      Outside(sec) ==
        ~\E k \in 1..Len(all) :
           /\ all[k].position < sec.position
           /\ sec.position < all[k].position + all[k].length
  IN SelectSeq(all, Outside)

parse_acs_sections(text) ==
  SortByPosition(Collected(Len(section_patterns), text))

\* aoo_pattern and task_pattern, lines 208 and 216
aoo_pattern ==
  Lit(AreaOfOperationWord) \o
  <<Plus(Whitespace), Open(1), Plus(RomanDigits), Close(1), Star(Whitespace),
    One({":", "-"}), Star(Whitespace), Open(2), NotPlus({"\n"}), Close(2)>>

task_pattern ==
  Lit(TaskWord) \o
  <<Plus(Whitespace), Open(1), Plus(Letters), Close(1), One({"."}),
    Star(Whitespace), Open(2), NotPlus({"\n"}), Close(2)>>

\* ref_patterns, lines 224-229
ref_patterns ==
  << Lit(CfrPartWord) \o <<Open(1), Plus(Digits), Close(1)>>,
     Lit(AcWord) \o <<Open(1), Plus(Digits), One({"-"}), Plus(Digits),
                      Star(Letters), Close(1)>>,
     Lit(AimWord) \o <<Open(1), Plus(Digits), One({"-"}), Plus(Digits),
                       One({"-"}), Plus(Digits), Close(1)>>,
     Lit(PohAfmWord) >>

\* match.group(0) of every match of the first n reference patterns
RECURSIVE ReferencesOf(_, _)
ReferencesOf(n, text) ==
  IF n = 0 THEN <<>>
  ELSE LET ms == FindIter(ref_patterns[n], text, 1)
       IN ReferencesOf(n - 1, text) \o
          [k \in 1..Len(ms) |-> Group0(text, ms[k])]

\* the table without its tasks
extract_acs_standards_NoTasks(text) ==
  LET areas == FindIter(aoo_pattern, text, 1)
  IN [ areas_of_operation |->
         [k \in 1..Len(areas) |->
            [ number |-> Group(text, areas[k], 1),
              title |-> Strip(Group(text, areas[k], 2)) ]],
       tasks |-> <<>>,
       references |-> ReferencesOf(Len(ref_patterns), text),
       objectives |-> <<>>, knowledge_elements |-> <<>>,
       risk_management |-> <<>>, skill_elements |-> <<>> ]

extract_acs_standards(text) ==
  LET areas == FindIter(aoo_pattern, text, 1)
      tasks == FindIter(task_pattern, text, 1)
  IN [ areas_of_operation |->
         [k \in 1..Len(areas) |->
            [ number |-> Group(text, areas[k], 1),
              title |-> Strip(Group(text, areas[k], 2)) ]],
       tasks |->
         [k \in 1..Len(tasks) |->
            [ code |-> Group(text, tasks[k], 1),
              title |-> Strip(Group(text, tasks[k], 2)) ]],
       references |-> ReferencesOf(Len(ref_patterns), text),
       objectives |-> <<>>, knowledge_elements |-> <<>>,
       risk_management |-> <<>>, skill_elements |-> <<>> ]

\* ------------------------------------------------------------------------
\* pdf_processor.py: the extraction run
\* ------------------------------------------------------------------------
TextDir == "data/extracted-text"
MetadataDir == "data/metadata"
DocsDir == "data/acs-documents"

\* the libraries the import block of lines 16-32 looks for, best first
Backends == <<"pymupdf4llm", "pdftext", "pymupdf">>

\* _determine_processing_method: the first backend that was imported;
\* None stands for the ImportError of line 76
DetermineProcessingMethod(available) ==
  IF available = {} THEN None
  ELSE Some(Backends[CHOOSE k \in DOMAIN Backends :
                       /\ Backends[k] \in available
                       /\ \A j \in 1..(k - 1) : Backends[j] \notin available])

\* what the backend does with one PDF: it raises, or it returns a text
ExtractRaised == [raised |-> TRUE, text |-> <<>>, metadata |-> <<>>]
ExtractOk(text) ==
  [raised |-> FALSE, text |-> text, metadata |-> << <<"page_count", 1>> >>]

\* extract_text: "", {} when the backend raises
extract_text(method, outcome) ==
  IF method = None \/ outcome.raised
  THEN [text |-> <<>>, metadata |-> <<>>]
  ELSE [text |-> outcome.text, metadata |-> outcome.metadata]

\* pdf_path.stem of a path of the content store
Stem(path) == SubSeq(path, 1, Len(path) - 1)

\* len(text.split()): the number of runs of characters that are not
\* whitespace
WordCount(text) ==
  Cardinality({k \in 1..Len(text) :
                 /\ text[k] \notin Whitespace
                 /\ (k = 1 \/ text[k - 1] \in Whitespace)})

ProcessedDocument(name, source_path, text_content, structured, sections, metadata, method, processed_at) ==
  [ name |-> name, source_path |-> source_path,
    text_content |-> text_content,
    structured_content |-> structured, sections |-> sections,
    metadata |-> metadata, processing_method |-> method,
    processed_at |-> processed_at ]

\* the document without the early return of line 244
Extracted_NoEarlyReturn(path, method, outcome, now) ==
  LET t == extract_text(method, outcome)
  IN ProcessedDocument(Stem(path), path, t.text, None, Some(<<>>),
                       Some(t.metadata), method, Some(now))

\* process_document, lines 242-252: the document as it stands when the text
\* is extracted; it is the document returned when the text is empty
Extracted(path, method, outcome, now) ==
  LET t == extract_text(method, outcome)
  IN ProcessedDocument(Stem(path), path, t.text, None, None,
                       IF t.text = <<>> THEN None ELSE Some(t.metadata),
                       method, Some(now))

\* process_document, lines 254-277
Parsed(d) ==
  [d EXCEPT
     !.sections = Some(parse_acs_sections(d.text_content)),
     !.structured_content =
        Some([ standards |-> extract_acs_standards(d.text_content),
               metadata |-> d.metadata[1],
               word_count |-> WordCount(d.text_content),
               character_count |-> Len(d.text_content) ])]

\* save_processed_document writes the text file, the markdown file and the
\* JSON file in this order; open() or write() of any of them can raise
Artifacts == <<"txt", "md", "json">>
SaveOutcomes == {"ok", "txt_error", "md_error", "json_error"}

\* the save that writes all the files or none
Written_Atomic(name, outcome) ==
  IF outcome = "ok" THEN { <<name, Artifacts[k]>> : k \in DOMAIN Artifacts }
  ELSE {}

\* the files of a document that exist after the save
Written(name, outcome) ==
  LET n == CASE outcome = "txt_error" -> 0
             [] outcome = "md_error" -> 1
             [] outcome = "json_error" -> 2
             [] OTHER -> Len(Artifacts)
  IN { <<name, Artifacts[k]>> : k \in 1..n }

\* the loop that stops at the first save that raises
AfterSave_Abort(outcome) == IF outcome = "ok" THEN "Pending" ELSE "aborted"

\* the except clause of line 346 logs the exception: the loop goes on to
\* the next PDF whatever the save did
AfterSave(outcome) == "Pending"

\* the texts a backend returns in the extraction run
ScenarioD ==
  <<"A", "R", "E", "A", " ", "O", "F", " ", "O", "P", "E", "R", "A", "T",
    "I", "O", "N", " ", "I", "I", ":", " ", "A", "i", "r", "s", "p", "a",
    "c", "e", "\n", "T", "A", "S", "K", " ", "A", ".", " ", "P", "r", "e",
    "f", "l", "i", "g", "h", "t", " ", "P", "r", "e", "p">>

ExtractOutcomes ==
  {ExtractRaised, ExtractOk(<<>>), ExtractOk(ScenarioD),
   ExtractOk(<<"S", "K", "I", "L", "L", "S">>)}

\* the orders in which glob can return the PDFs of the content store
GlobOrders(st) ==
  LET files == {p \in StorePaths : st[p] # None}
  IN { order \in [1..Cardinality(files) -> files] :
         \A i, j \in DOMAIN order : i # j => order[i] # order[j] }

\* pdf_processor.py starts when the detection runs are over, on what they
\* left: a fresh checkout, or the directories of the monitor and the PDFs
\* stored so far
InitExtract ==
  /\ ppc = "new"
  /\ \/ dirs = {} /\ store = [p \in StorePaths |-> None]
     \/ dirs = MonitorDirs /\ store \in [StorePaths -> OptOf(Payloads)]
  /\ processing_method = None
  /\ pdf_files = <<>>
  /\ pidx = 1
  /\ cur_doc = None
  /\ processed_docs = <<>>
  /\ artifacts = {}
  /\ processingSummary = NoFile
  /\ elog = <<>>
  /\ knownFile = NoFile
  /\ changesFile = NoFile
  /\ summaryFile = NoFile
  /\ clock = MaxRuns + 1
  /\ pc = "idle"
  /\ known_docs = <<>>
  /\ known_urls = <<>>
  /\ current_docs = <<>>
  /\ idx = 1
  /\ changes = <<>>
  /\ all_docs = <<>>
  /\ log = <<>>
  /\ failures = 0
  /\ checks = 0
  /\ slept = 0

monitorVars == <<knownFile, changesFile, summaryFile, store, clock, pc,
                 known_docs, known_urls, current_docs, idx, changes,
                 all_docs, log, failures, checks, slept>>

\* ACSProcessor(), lines 53-65: the directories are created, then the
\* backend is chosen
Construct ==
  /\ ppc = "new"
  /\ dirs' = dirs \cup {TextDir, MetadataDir}
  /\ \E available \in SUBSET {Backends[k] : k \in DOMAIN Backends} :
       /\ processing_method' = DetermineProcessingMethod(available)
       /\ ppc' = IF processing_method' = None THEN "failed" ELSE "ready"
  /\ UNCHANGED <<pdf_files, pidx, cur_doc, processed_docs, artifacts,
                 processingSummary, elog, monitorVars>>

\* process_all_documents, lines 325-337: the two early returns, the glob
StartBatch ==
  /\ ppc = "ready"
  /\ IF DocsDir \notin dirs
     THEN pdf_files' = <<>> /\ ppc' = "done"
     ELSE \E order \in GlobOrders(store) :
            /\ pdf_files' = order
            /\ ppc' = IF order = <<>> THEN "done" ELSE "Pending"
  /\ pidx' = 1
  /\ processed_docs' = <<>>
  /\ elog' = <<>>
  /\ UNCHANGED <<dirs, processing_method, cur_doc, artifacts,
                 processingSummary, monitorVars>>

\* process_document, lines 242-252: extract_text on pdf_files[pidx]
ExtractStep ==
  /\ ppc = "Pending"
  /\ pidx <= Len(pdf_files)
  /\ \E outcome \in ExtractOutcomes :
       /\ cur_doc' = Some(Extracted(pdf_files[pidx], processing_method,
                                    outcome, clock))
       /\ elog' = Append(elog, [ pdf |-> pdf_files[pidx],
                                 raised |-> outcome.raised,
                                 trail |-> <<"Pending", "TextExtracted">>,
                                 save |-> "none", counted |-> FALSE ])
  /\ ppc' = "TextExtracted"
  /\ UNCHANGED <<dirs, processing_method, pdf_files, pidx, processed_docs,
                 artifacts, processingSummary, monitorVars>>

\* process_document, lines 254-277: sections and standards of a text that
\* is not empty
ParseStep ==
  /\ ppc = "TextExtracted"
  /\ cur_doc[1].text_content # <<>>
  /\ cur_doc' = Some(Parsed(cur_doc[1]))
  /\ elog' = [elog EXCEPT ![pidx].trail =
                Append(@, "SectionsParsed, StandardsExtracted")]
  /\ ppc' = "Parsed"
  /\ UNCHANGED <<dirs, processing_method, pdf_files, pidx, processed_docs,
                 artifacts, processingSummary, monitorVars>>

\* process_all_documents, lines 341-347: the document is saved and, when
\* the save returns, counted; an exception of the save is logged
SaveStep ==
  /\ \/ ppc = "Parsed"
     \/ ppc = "TextExtracted" /\ cur_doc[1].text_content = <<>>
  /\ \E outcome \in SaveOutcomes :
       /\ artifacts' = artifacts \cup Written(cur_doc[1].name, outcome)
       /\ processed_docs' = IF outcome = "ok"
                            THEN Append(processed_docs, cur_doc[1])
                            ELSE processed_docs
       /\ elog' = [elog EXCEPT
                     ![pidx].trail =
                        Append(@, IF outcome = "ok" THEN "Persisted"
                                  ELSE "Failed"),
                     ![pidx].save = outcome,
                     ![pidx].counted = (outcome = "ok")]
       /\ ppc' = AfterSave(outcome)
  /\ cur_doc' = None
  /\ pidx' = pidx + 1
  /\ UNCHANGED <<dirs, processing_method, pdf_files, processingSummary,
                 monitorVars>>

\* process_all_documents, lines 349-362: the summary of the batch
WriteSummary ==
  /\ ppc = "Pending"
  /\ pidx > Len(pdf_files)
  /\ processingSummary' =
       FileOf(<<[ processed_at |-> clock,
                  total_documents |-> Len(pdf_files),
                  successfully_processed |-> Len(processed_docs),
                  processing_method |-> processing_method[1],
                  documents |-> [k \in 1..Len(processed_docs) |->
                                   processed_docs[k].name] ]>>)
  /\ ppc' = "done"
  /\ UNCHANGED <<dirs, processing_method, pdf_files, pidx, cur_doc,
                 processed_docs, artifacts, elog, monitorVars>>

NextExtract ==
  Construct \/ StartBatch \/ ExtractStep \/ ParseStep \/ SaveStep
    \/ WriteSummary

SpecExtract == InitExtract /\ [][NextExtract]_vars

\* ------------------------------------------------------------------------
\* parse_acs_sections and extract_acs_standards on a family of texts
\* ------------------------------------------------------------------------
\* the longest text of the family, in lines
MaxLines == 2

\* lines of an ACS document: headers of every rule, in either case, with
\* and without content, a header inside the content of another, references
Lines ==
  {
    <<"A", "R", "E", "A", " ", "O", "F", " ", "O", "P", "E", "R", "A", "T",
      "I", "O", "N", " ", "I", "I", ":", " ", "A", "i", "r", "s", "p", "a",
      "c", "e">>,
    <<"T", "A", "S", "K", " ", "A", ".", " ", "P", "r", "e", "f", "l", "i",
      "g", "h", "t", " ", "P", "r", "e", "p">>,
    <<"R", "e", "f", "e", "r", "e", "n", "c", "e", "s", ":", " ", "1", "4",
      " ", "C", "F", "R", " ", "p", "a", "r", "t", " ", "6", "1">>,
    <<"O", "b", "j", "e", "c", "t", "i", "v", "e", ":", " ", "t", "a", "s",
      "k", " ", "B", ".", " ", "x">>,
    <<"S", "K", "I", "L", "L", "S">>,
    <<"K", "n", "o", "w", "l", "e", "d", "g", "e", ":", " ", " ">>,
    <<"R", "i", "s", "k", " ", "M", "a", "n", "a", "g", "e", "m", "e", "n",
      "t", " ", "-", " ", "A", "C", " ", "6", "1", "-", "6", "5", "H">>,
    <<>>,
    <<"R", "E", "F", "E", "R", "E", "N", "C", "E", "S">>,
    <<"a", "r", "e", "a", " ", "o", "f", " ", "o", "p", "e", "r", "a", "t",
      "i", "o", "n", " ", "i", "v", " ", "-", " ", "A", "I", "M", " ", "4",
      "-", "1", "-", "2", " ", "P", "O", "H", "/", "A", "F", "M">> }

\* lists of at most n lines
RECURSIVE LineLists(_)
LineLists(n) ==
  IF n = 0 THEN { <<>> }
  ELSE LET shorter == LineLists(n - 1)
       IN shorter \cup
          { Append(l, line) : l \in {x \in shorter : Len(x) = n - 1},
                              line \in Lines }

\* "\n".join(lines)
RECURSIVE Join(_)
Join(lines) ==
  IF lines = <<>> THEN <<>>
  ELSE IF Len(lines) = 1 THEN lines[1]
  ELSE lines[1] \o <<"\n">> \o Join(Tail(lines))

\* the texts of the family that are not empty
ParseTexts == { Join(l) : l \in LineLists(MaxLines) } \ { <<>> }

\* the backend has returned the text of the first PDF of a batch
InitParse ==
  /\ \E text \in ParseTexts :
       cur_doc = Some(Extracted(LocalPath(NameA), Some(Backends[1]),
                                ExtractOk(text), 1))
  /\ ppc = "TextExtracted"
  /\ dirs = MonitorDirs \cup {TextDir}
  /\ processing_method = Some(Backends[1])
  /\ pdf_files = <<LocalPath(NameA)>>
  /\ pidx = 1
  /\ processed_docs = <<>>
  /\ artifacts = {}
  /\ processingSummary = NoFile
  /\ elog = <<[ pdf |-> LocalPath(NameA), raised |-> FALSE,
                trail |-> <<"Pending", "TextExtracted">>,
                save |-> "none", counted |-> FALSE ]>>
  /\ store = [p \in StorePaths |->
                IF p = LocalPath(NameA) THEN Some(<<1>>) ELSE None]
  /\ knownFile = NoFile
  /\ changesFile = NoFile
  /\ summaryFile = NoFile
  /\ clock = 1
  /\ pc = "idle"
  /\ known_docs = <<>>
  /\ known_urls = <<>>
  /\ current_docs = <<>>
  /\ idx = 1
  /\ changes = <<>>
  /\ all_docs = <<>>
  /\ log = <<>>
  /\ failures = 0
  /\ checks = 0
  /\ slept = 0

NextParse == ParseStep

SpecParse == InitParse /\ [][NextParse]_vars

\* the matches of the first n section rules in the text, counted
RECURSIVE MatchCount(_, _)
MatchCount(n, text) ==
  IF n = 0 THEN 0
  ELSE MatchCount(n - 1, text)
       + Len(FindIter(section_patterns[n], text, 1))

\* C13: the sections parse_acs_sections returns are in ascending order of
\* position, there are as many of them as the seven rules have matches in
\* the text, and every match of every rule is exactly one of them, matches
\* that overlap included.
C13_SectionsSortedAndComplete ==
  ppc = "Parsed" =>
    LET text == cur_doc[1].text_content
        secs == cur_doc[1].sections[1]
    IN /\ \A k \in 1..(Len(secs) - 1) :
            secs[k].position <= secs[k + 1].position
       /\ Len(secs) = MatchCount(Len(section_patterns), text)
       /\ \A n \in DOMAIN section_patterns :
            LET ms == FindIter(section_patterns[n], text, 1)
            IN \A i \in 1..Len(ms) :
                 Cardinality({k \in 1..Len(secs) :
                                secs[k] = SectionOf(text, ms[i])}) = 1

\* a text has been parsed into sections of which one begins inside another
C13_Witness ==
  /\ ppc = "Parsed"
  /\ LET secs == cur_doc[1].sections[1]
     IN /\ Len(secs) >= 3
        /\ \E k \in 1..(Len(secs) - 1) :
             secs[k + 1].position < secs[k].position + secs[k].length

\* C14: for the text 'AREA OF OPERATION II: Airspace', newline, 'TASK A.
\* Preflight Prep', parse_acs_sections returns two sections, the area of
\* operation with content 'Airspace' and after it the task with content
\* 'Preflight Prep'; extract_acs_standards returns one area (II, Airspace),
\* one task (A, Preflight Prep), and a table that holds all seven lists.
C14_ScenarioD ==
  (ppc = "Parsed" /\ cur_doc[1].text_content = ScenarioD) =>
    LET secs == cur_doc[1].sections[1]
        standards == cur_doc[1].structured_content[1].standards
        airspace == <<"A", "i", "r", "s", "p", "a", "c", "e">>
        prep == <<"P", "r", "e", "f", "l", "i", "g", "h", "t", " ", "P",
                  "r", "e", "p">>
    IN /\ Len(secs) = 2
       /\ secs[1].type = AreaOfOperationWord \o <<" ", "I", "I">>
       /\ secs[1].content = airspace
       /\ secs[2].type = TaskWord \o <<" ", "A">>
       /\ secs[2].content = prep
       /\ secs[1].position < secs[2].position
       /\ standards.areas_of_operation =
            <<[number |-> <<"I", "I">>, title |-> airspace]>>
       /\ standards.tasks = <<[code |-> <<"A">>, title |-> prep]>>
       /\ DOMAIN standards =
            {"areas_of_operation", "tasks", "references", "objectives",
             "knowledge_elements", "risk_management", "skill_elements"}

\* the text of the scenario has been parsed
C14_Witness ==
  /\ ppc = "Parsed"
  /\ cur_doc[1].text_content = ScenarioD
  /\ cur_doc[1].sections # None
  /\ cur_doc[1].structured_content # None

\* ------------------------------------------------------------------------
\* Properties of the extraction run
\* ------------------------------------------------------------------------
\* the steps of the loop of process_all_documents
ExtractDone == ppc = "Pending" /\ ppc' = "TextExtracted"
SaveDone == pidx' = pidx + 1

\* the text, markdown and JSON files of a document
AllFiles(name) == { <<name, "txt">>, <<name, "md">>, <<name, "json">> }

\* the document process_document returns for path when the text is empty
EmptyDocument(path) ==
  ProcessedDocument(Stem(path), path, <<>>, None, None, None,
                    processing_method, Some(clock))

\* C15: when the backend raises or returns the empty text, process_document
\* returns a document with empty text, no sections and no standards; the
\* document is persisted and counted as processed, and the batch goes on to
\* the next PDF.
C15_EmptyTextIsPersisted ==
  [][ /\ (ExtractDone /\ (elog'[pidx].raised
                          \/ cur_doc'[1].text_content = <<>>))
         => cur_doc' = Some(EmptyDocument(pdf_files[pidx]))
      /\ (SaveDone /\ cur_doc[1].text_content = <<>>)
         => /\ cur_doc[1] = EmptyDocument(pdf_files[pidx])
            /\ AllFiles(cur_doc[1].name) \subseteq artifacts'
            /\ processed_docs' = Append(processed_docs, cur_doc[1])
            /\ elog'[pidx].counted
            /\ ppc' = "Pending" ]_vars

\* C15, amended: as above, but the empty document is persisted and counted
\* when its save does not raise; the batch goes on in either case.
C15_EmptyTextIsSaved ==
  [][ /\ (ExtractDone /\ (elog'[pidx].raised
                          \/ cur_doc'[1].text_content = <<>>))
         => cur_doc' = Some(EmptyDocument(pdf_files[pidx]))
      /\ (SaveDone /\ cur_doc[1].text_content = <<>>)
         => /\ cur_doc[1] = EmptyDocument(pdf_files[pidx])
            /\ elog'[pidx].save = "ok"
               => /\ AllFiles(cur_doc[1].name) \subseteq artifacts'
                  /\ processed_docs' = Append(processed_docs, cur_doc[1])
                  /\ elog'[pidx].counted
            /\ ppc' = "Pending" ]_vars

\* the backend raised on the first PDF of two; its empty document was saved
\* and counted, and the text of the second PDF has been extracted
C15_Witness ==
  /\ ppc = "TextExtracted"
  /\ pidx = 2
  /\ elog[1].raised
  /\ elog[1].counted
  /\ processed_docs = <<EmptyDocument(pdf_files[1])>>
  /\ AllFiles(Stem(pdf_files[1])) \subseteq artifacts

\* C16: when no backend is available the constructor fails before any
\* document is processed, and it has created no directory and no file.
C16_NoBackendNoSideEffect ==
  [][ (ppc = "new" /\ ppc' = "failed")
      => /\ dirs' = dirs
         /\ artifacts' = artifacts
         /\ processingSummary' = processingSummary
         /\ elog' = <<>>
         /\ processed_docs' = <<>> ]_vars

\* the stages of a document whose text is not empty, and of one whose text
\* is empty
FullTrail ==
  <<"Pending", "TextExtracted", "SectionsParsed, StandardsExtracted",
    "Persisted">>
EmptyTrail == <<"Pending", "TextExtracted", "Persisted">>

IsPrefix(a, b) == Len(a) <= Len(b) /\ a = SubSeq(b, 1, Len(a))

\* a trail with the last stage replaced by Failed
FailedAtSave(trail) == [trail EXCEPT ![Len(trail)] = "Failed"]

InitBoth == Init \/ InitExtract

NextBoth == Next \/ NextExtract

SpecBoth == InitBoth /\ [][NextBoth]_vars

\* C20: in a detection run and in an extraction run the loop goes on to the
\* next document whatever happened to the current one (probe error, fetch
\* error, write error, extraction error, save error), no state of a loop is
\* stuck, and the final step is taken only when every document of the batch
\* has been attempted; it writes the registry and the summary of the run.
C20_FailuresAreIsolated ==
  [][ /\ CheckStep => (pc' = "loop" /\ Len(log') = idx)
      /\ pc = "loop" => ENABLED (CheckKnown \/ CheckNew \/ FinishRun)
      /\ FinishStep
         => /\ Len(log) = Len(current_docs)
            /\ knownFile'.exists
            /\ Len(knownFile'.data) = Len(current_docs)
            /\ summaryFile'.exists
            /\ summaryFile'.data[1].total_documents = Len(current_docs)
      /\ SaveDone => (ppc' = "Pending" /\ Len(elog') = pidx)
      /\ ppc = "Pending" => ENABLED (ExtractStep \/ WriteSummary)
      /\ ppc = "TextExtracted"
         => (cur_doc[1].text_content # <<>> \/ ENABLED SaveStep)
      /\ ppc = "Parsed" => ENABLED SaveStep
      /\ (ppc = "Pending" /\ ppc' = "done")
         => /\ Len(elog) = Len(pdf_files)
            /\ processingSummary'.exists
            /\ processingSummary'.data[1].total_documents = Len(pdf_files)
    ]_vars

\* an extraction run has ended: the backend raised on the first PDF and
\* the save of its document raised, the second PDF is persisted
C20_Witness ==
  /\ ppc = "done"
  /\ processingSummary.exists
  /\ Len(elog) = 2
  /\ elog[1].raised
  /\ elog[1].save = "txt_error"
  /\ elog[2].counted
  /\ AllFiles(Stem(pdf_files[2])) \subseteq artifacts

\* ------------------------------------------------------------------------
\* Properties of the detection run: the summary, the runs that follow a
\* discovery, the content store, the events of one run
\* ------------------------------------------------------------------------
\* the check of log entry e failed: the probe raised or answered another
\* status than 200, or the body was requested and the request failed
CheckFailed(e) ==
  \/ e.kind = "known" /\ ProbeFailed(e.head)
  \/ e.fetched /\ ~e.get.ok

\* C21: last_run_summary.json counts successes only: total_documents is the
\* number of discovered candidates less the checks whose probe or fetch
\* failed, and no event counted in changes_detected is of a failed check.
C21_SummaryCountsSuccesses ==
  [][ FinishStep =>
        LET failed == { k \in 1..Len(log) : CheckFailed(log[k]) }
            emitted == { k \in 1..Len(log) : log[k].emitted > 0 }
            summary == summaryFile'.data[1]
        IN /\ summary.total_documents =
                Len(current_docs) - Cardinality(failed)
           /\ summary.changes_detected = Cardinality(emitted \ failed)
           /\ failed # {} => summary.total_documents < Len(current_docs)
    ]_vars

\* the run before this one discovered url, downloaded it and announced it:
\* changes.json holds its NEW event, written by that run, with a hash
FirstDownloadedInPreviousRun(url) ==
  /\ changesFile.exists
  /\ \E j \in 1..Len(changesFile.data) :
       /\ changesFile.data[j].type = "new"
       /\ changesFile.data[j].timestamp = clock - 1
       /\ changesFile.data[j].document.url = <<"str", url>>
       /\ changesFile.data[j].document.content_hash[1] = "str"

\* C22: a document the previous run discovered and downloaded, whose probe
\* succeeds in this run and whose bytes, when they are fetched, are
\* fetched and stored without error and hash to the stored hash, gets no
\* event in this run (the headers the server sends were not seen by the
\* run that discovered it, so any of them are those of an unchanged
\* server).
C22_NoEventAfterFirstDownload ==
  [][ (/\ CheckStep
       /\ OnKnown
       /\ FirstDownloadedInPreviousRun(current_docs[idx].url)
       /\ Before.content_hash # None)
      => LET e == log'[Len(log')]
         IN (/\ ProbeOk(e.head)
             /\ e.write \in {"none", "ok"}
             /\ e.fetched
                => (/\ e.get.ok
                    /\ Some(SHA256(e.get.content)) = Before.content_hash))
            => e.emitted = 0
    ]_vars

\* the file a registry record points to holds the bytes of its hash
FileMatches(record, st) ==
  LET path == record.local_path[2]
  IN /\ record.content_hash[1] = "str"
     /\ path \in DOMAIN st
     /\ st[path] # None
     /\ SHA256(st[path][1]) = record.content_hash[2]

\* C23: every record of known_documents.json that has a local path has a
\* content hash, and the file at that path holds bytes of that hash; two
\* urls whose names sanitize to one file name are no exception.
C23_RegistryMatchesStore ==
  pc = "idle" =>
    \A k \in 1..Len(knownFile.data) :
      knownFile.data[k].local_path[1] = "str"
      => FileMatches(knownFile.data[k], store)

\* the urls of the events of a change list, in the order of the list
EventUrls(events) == [j \in 1..Len(events) |-> events[j].document.url[2]]

\* the urls of the candidates of a run, in discovery order
DiscoveredUrls(docs) == [j \in 1..Len(docs) |-> docs[j].url]

\* s is t with some elements left out
RECURSIVE IsSubsequence(_, _)
IsSubsequence(s, t) ==
  IF s = <<>> THEN TRUE
  ELSE IF t = <<>> THEN FALSE
  ELSE IF Head(s) = Head(t) THEN IsSubsequence(Tail(s), Tail(t))
  ELSE IsSubsequence(s, Tail(t))

\* C24: in one run no url has two events, a NEW event is of a url that was
\* not in the registry loaded at the start of the run and an UPDATED event
\* of a url that was, and the events are in discovery order.
C24_OneEventPerUrlInOrder ==
  pc = "loop" =>
    /\ \A j, k \in 1..Len(changes) :
         changes[j].document.url = changes[k].document.url => j = k
    /\ \A j \in 1..Len(changes) :
         /\ changes[j].type \in {"new", "updated"}
         /\ changes[j].type = "new"
            <=> changes[j].document.url[2] \notin DOMAIN known_urls
    /\ IsSubsequence(EventUrls(changes), DiscoveredUrls(current_docs))
====
